---- MODULE Spec2Model ----
(***************************************************************************)
(* Model of src/Sports_bot_web.py: the moneyline -> probability converter, *)
(* the consensus aggregator, the event formatter, the chunker and the two  *)
(* chat command handlers.                                                  *)
(*                                                                         *)
(* Representation.                                                         *)
(*  - A Python str is a sequence of tokens (Seq(STRING)); len() is Len and *)
(*    every token counts as one character.  "\n" and "\r" are the line     *)
(*    break tokens.                                                        *)
(*  - A Python float is an exact rational <<n, d>> in lowest terms with    *)
(*    d > 0; None (in a place where a float is expected) is <<0, 0>>.      *)
(*    Floating point rounding and the non-finite floats are not modelled.  *)
(*  - A JSON price is [t |-> "num" | "none" | "bad", v |-> Int]: a number, *)
(*    a missing/null price, or a value float() rejects.                    *)
(*  - A missing name (dict.get -> None) is the string NONE.                *)
(***************************************************************************)
EXTENDS Integers, Sequences, FiniteSets, TLC

VARIABLES
    pc,          \* position of the call / handler being modelled
    ml, prob,    \* implied_prob_from_moneyline: argument and result
    event, pick, \* best_consensus_pick: argument and result
    s, limit, chunks,          \* chunk_text: arguments and result
    events, with_picks, text,  \* format_games: arguments and result
    cmd, args, fetched, pending, replies \* command handlers

vars == <<pc, ml, prob, event, pick, s, limit, chunks, events, with_picks,
          text, cmd, args, fetched, pending, replies>>

----------------------------------------------------------------------------
(* Bounds of the model *)

MaxMl == 120
MaxQuotes == 2
MaxLen == 6
MaxLimit == 4
MaxEvents == 3
MaxTime == 3
MaxFetched == 2
\* the default limit of chunk_text (3800 characters), at the scale of the
\* model's strings, whose lines are 1 to 12 tokens long
ScaledLimit == 16

----------------------------------------------------------------------------
(* Values *)

NONE == "None"
None == <<0, 0>>
IsNone(p) == p[2] = 0

Abs(x) == IF x < 0 THEN -x ELSE x

RECURSIVE GCD(_, _)
GCD(a, b) == IF b = 0 THEN a ELSE GCD(b, a % b)

\* the rational n/d (d # 0) in lowest terms with a positive denominator
Frac(n, d) ==
    LET g == GCD(Abs(n), Abs(d))
        sg == IF d < 0 THEN -1 ELSE 1
    IN <<sg * (n \div g), sg * (d \div g)>>

FAdd(a, b) == Frac(a[1] * b[2] + b[1] * a[2], a[2] * b[2])
FGt(a, b) == a[1] * b[2] > b[1] * a[2]
\* Python max(a, b): the first argument unless the second is greater
FMax(a, b) == IF FGt(b, a) THEN b ELSE a

NumPrice(v) == [t |-> "num", v |-> v]
NoPrice == [t |-> "none", v |-> 0]
BadPrice == [t |-> "bad", v |-> 0]

----------------------------------------------------------------------------
(* implied_prob_from_moneyline *)

\* the divisor of the branch the code takes for a numeric ml
Denominator(v) == IF v < 0 THEN (-v) + 100 ELSE v + 100

implied_prob_mutant(price) ==
    IF price.t # "num" THEN None
    ELSE IF price.v + 100 = 0 THEN None
    ELSE Frac(100, price.v + 100)

\* float(ml) raises for None and for unparseable values, a zero divisor
\* raises ZeroDivisionError; the bare except turns every raise into None.
implied_prob_from_moneyline(price) ==
    IF price.t # "num" THEN None
    ELSE IF Denominator(price.v) = 0 THEN None
    ELSE IF price.v < 0 THEN Frac(-price.v, (-price.v) + 100)
    ELSE Frac(100, price.v + 100)

----------------------------------------------------------------------------
(* best_consensus_pick *)

\* sum(v): left to right from 0
RECURSIVE SumProbs(_)
SumProbs(v) ==
    IF v = <<>> THEN <<0, 1>>
    ELSE FAdd(SumProbs(SubSeq(v, 1, Len(v) - 1)), v[Len(v)])

\* sum(v)/len(v) if v else None
Average(v) ==
    IF v = <<>> THEN None
    ELSE LET t == SumProbs(v) IN Frac(t[1], t[2] * Len(v))

RECURSIVE CollectProbs_mutant(_, _)
CollectProbs_mutant(outcomes, team_probs) ==
    IF outcomes = <<>> THEN team_probs
    ELSE LET o == Head(outcomes)
             p == implied_prob_from_moneyline(o.price)
             next ==
                 IF ~IsNone(p) /\ o.name \in DOMAIN team_probs
                 THEN [team_probs EXCEPT ![o.name] = Append(@, p)]
                 ELSE team_probs
         IN CollectProbs_mutant(Tail(outcomes), next)

\* one pass of the innermost loop body over the outcomes of all markets of
\* all bookmakers, in order; an outcome carries its market's key
RECURSIVE CollectProbs(_, _)
CollectProbs(outcomes, team_probs) ==
    IF outcomes = <<>> THEN team_probs
    ELSE LET o == Head(outcomes)
             p == implied_prob_from_moneyline(o.price)
             next ==
                 IF o.key # "h2h" THEN team_probs
                 ELSE IF ~IsNone(p) /\ o.name \in DOMAIN team_probs
                 THEN [team_probs EXCEPT ![o.name] = Append(@, p)]
                 ELSE team_probs
         IN CollectProbs(Tail(outcomes), next)

Decide_mutant(home, away, av) ==
    IF ~IsNone(av[home]) /\ ~IsNone(av[away])
    THEN [winner |-> IF FGt(av[away], av[home]) THEN away ELSE home,
          conf |-> FMax(av[home], av[away]), av |-> av]
    ELSE IF ~IsNone(av[home])
    THEN [winner |-> home, conf |-> av[home], av |-> av]
    ELSE IF ~IsNone(av[away])
    THEN [winner |-> away, conf |-> av[away], av |-> av]
    ELSE [winner |-> NONE, conf |-> None, av |-> av]

Decide_mutant_conf(home, away, av) ==
    IF ~IsNone(av[home]) /\ ~IsNone(av[away])
    THEN [winner |-> IF FGt(av[home], av[away]) THEN home ELSE away,
          conf |-> av[home], av |-> av]
    ELSE IF ~IsNone(av[home])
    THEN [winner |-> home, conf |-> av[home], av |-> av]
    ELSE IF ~IsNone(av[away])
    THEN [winner |-> away, conf |-> av[away], av |-> av]
    ELSE [winner |-> NONE, conf |-> None, av |-> av]

\* the decision of lines 67-74
Decide(home, away, av) ==
    IF ~IsNone(av[home]) /\ ~IsNone(av[away])
    THEN [winner |-> IF FGt(av[home], av[away]) THEN home ELSE away,
          conf |-> FMax(av[home], av[away]), av |-> av]
    ELSE IF ~IsNone(av[home])
    THEN [winner |-> home, conf |-> av[home], av |-> av]
    ELSE IF ~IsNone(av[away])
    THEN [winner |-> away, conf |-> av[away], av |-> av]
    ELSE [winner |-> NONE, conf |-> None, av |-> av]

best_consensus_pick(e) ==
    LET home == e.home_team
        away == e.away_team
        team_probs == CollectProbs(e.outcomes, [t \in {home, away} |-> <<>>])
        av == [t \in {home, away} |-> Average(team_probs[t])]
    IN Decide(home, away, av)

----------------------------------------------------------------------------
(* chunk_text *)

NL == "\n"
CR == "\r"

\* str.splitlines(): a line ends at "\n", "\r" or "\r\n"; the breaks are
\* dropped and a text that ends with a break has no empty last line
RECURSIVE SplitFrom(_, _, _, _)
SplitFrom(str, i, lines, cur) ==
    IF i > Len(str) THEN (IF cur # <<>> THEN Append(lines, cur) ELSE lines)
    ELSE IF str[i] = CR /\ i < Len(str) /\ str[i + 1] = NL
    THEN SplitFrom(str, i + 2, Append(lines, cur), <<>>)
    ELSE IF str[i] \in {NL, CR}
    THEN SplitFrom(str, i + 1, Append(lines, cur), <<>>)
    ELSE SplitFrom(str, i + 1, lines, Append(cur, str[i]))

splitlines(str) == SplitFrom(str, 1, <<>>, <<>>)

\* sep.join(parts)
RECURSIVE Join(_, _)
Join(parts, sep) ==
    IF parts = <<>> THEN <<>>
    ELSE IF Len(parts) = 1 THEN parts[1]
    ELSE parts[1] \o sep \o Join(Tail(parts), sep)

RECURSIVE ChunkLines_mutant(_, _, _, _)
ChunkLines_mutant(lines, lim, out, cur) ==
    IF lines = <<>> THEN (IF cur # <<>> THEN Append(out, cur) ELSE out)
    ELSE LET ln == Head(lines) IN
         IF Len(ln) + 1 > lim
         THEN ChunkLines_mutant(Tail(lines), lim, Append(out, cur), ln)
         ELSE ChunkLines_mutant(Tail(lines), lim, out,
                                IF cur # <<>> THEN cur \o <<NL>> \o ln ELSE ln)

\* the loop of lines 94-98 followed by line 99; an empty cur is falsy
RECURSIVE ChunkLines(_, _, _, _)
ChunkLines(lines, lim, out, cur) ==
    IF lines = <<>> THEN (IF cur # <<>> THEN Append(out, cur) ELSE out)
    ELSE LET ln == Head(lines) IN
         IF Len(cur) + Len(ln) + 1 > lim
         THEN ChunkLines(Tail(lines), lim, Append(out, cur), ln)
         ELSE ChunkLines(Tail(lines), lim, out,
                         IF cur # <<>> THEN cur \o <<NL>> \o ln ELSE ln)

chunk_text(str, lim) == ChunkLines(splitlines(str), lim, <<>>, <<>>)

----------------------------------------------------------------------------
(* to_local_date and format_games *)

\* A commence time is [k |-> Nat, ok |-> BOOLEAN].  ok: the value is a
\* timestamp of the fixed UTC format the odds API is asked for
\* (dateFormat=iso), k counting half minutes, so that string order is time
\* order.  ~ok: the value is rejected by datetime.fromisoformat or has no
\* .replace; k is then only its place in the sort order (k = 0: the key is
\* missing and sorts as "").
LocalOffset == 300

\* strftime("%Y-%m-%d %H:%M") of the instant in the local zone: seconds are
\* dropped; the zone is a fixed offset west of UTC
to_local_date(ct) == ToString((ct.k \div 2) - LocalOffset)

\* sorted(events, key=commence_time): stable, ascending
RECURSIVE InsertByTime(_, _)
InsertByTime(sorted, e) ==
    IF sorted = <<>> THEN <<e>>
    ELSE IF sorted[Len(sorted)].commence_time.k <= e.commence_time.k
    THEN Append(sorted, e)
    ELSE Append(InsertByTime(SubSeq(sorted, 1, Len(sorted) - 1), e),
                sorted[Len(sorted)])

SortedByTime_mutant(evs) == evs

RECURSIVE SortedByTime(_)
SortedByTime(evs) ==
    IF evs = <<>> THEN <<>>
    ELSE InsertByTime(SortedByTime(SubSeq(evs, 1, Len(evs) - 1)), evs[Len(evs)])

\* round(x*100, 1), in tenths of a percent (halves go to the even tenth)
RoundTenths(x) ==
    LET num == x[1] * 1000
        q == num \div x[2]
        r == num % x[2]
    IN IF 2 * r < x[2] THEN q
       ELSE IF 2 * r > x[2] THEN q + 1
       ELSE IF q % 2 = 0 THEN q ELSE q + 1

\* fmt of line 86
fmt(x) == IF ~IsNone(x) THEN <<ToString(RoundTenths(x)), "%">> ELSE <<"N/A">>

EventLine(e) ==
    <<"* ", e.away_team, " @ ", e.home_team, " - ",
      to_local_date(e.commence_time)>>

PickLine(e) ==
    LET r == best_consensus_pick(e) IN
    IF r.winner # NONE /\ ~IsNone(r.conf)
    THEN <<"    Pick: ", r.winner, "  (home ">> \o fmt(r.av[e.home_team])
         \o <<" | away ">> \o fmt(r.av[e.away_team])
         \o <<")  Confidence: ", ToString(RoundTenths(r.conf)), "%">>
    ELSE <<"    Pick: Not enough odds data yet.">>

\* the lines one iteration of the loop of lines 79-89 appends
EventLines(e, picks) ==
    IF picks THEN <<EventLine(e), PickLine(e)>> ELSE <<EventLine(e)>>

RECURSIVE FormatLoop_mutant(_, _, _)
FormatLoop_mutant(sorted, picks, lines) ==
    IF sorted = <<>> THEN [ok |-> TRUE, text |-> Join(lines, <<NL>>)]
    ELSE IF ~Head(sorted).commence_time.ok
    THEN FormatLoop_mutant(Tail(sorted), picks, lines)
    ELSE FormatLoop_mutant(Tail(sorted), picks,
                           lines \o EventLines(Head(sorted), picks))

\* the loop of lines 79-89 over the sorted events: to_local_date raises at
\* the first event whose commence time is not a timestamp, and the lines
\* built so far are dropped with the frame
RECURSIVE FormatLoop(_, _, _)
FormatLoop(sorted, picks, lines) ==
    IF sorted = <<>> THEN [ok |-> TRUE, text |-> Join(lines, <<NL>>)]
    ELSE IF ~Head(sorted).commence_time.ok
    THEN [ok |-> FALSE, text |-> <<"Invalid isoformat string">>]
    ELSE FormatLoop(Tail(sorted), picks, lines \o EventLines(Head(sorted), picks))

format_games(evs, picks) ==
    IF evs = <<>> THEN [ok |-> TRUE, text |-> <<"No games found for that date.">>]
    ELSE FormatLoop(SortedByTime(evs), picks, <<>>)

----------------------------------------------------------------------------
(* Inputs *)

RECURSIVE SeqsUpTo(_, _)
SeqsUpTo(S, n) ==
    IF n = 0 THEN {<<>>}
    ELSE LET shorter == SeqsUpTo(S, n - 1)
         IN shorter \cup {Append(q, x) : q \in {r \in shorter : Len(r) = n - 1}, x \in S}

PriceInputs == {NumPrice(v) : v \in (-MaxMl)..MaxMl} \cup {NoPrice, BadPrice}

Teams == {<<"A", "B">>, <<"B", "A">>}
QuotePrices == {NumPrice(-300), NumPrice(-100), NumPrice(100), NoPrice, BadPrice}
Outcomes ==
    [key : {"h2h", "spreads"}, name : {"A", "B", "C", NONE}, price : QuotePrices]

Time(k) == [k |-> k, ok |-> TRUE]
Event(home, away, ct, outcomes) ==
    [home_team |-> home, away_team |-> away, commence_time |-> ct,
     outcomes |-> outcomes]

PickEvents ==
    {Event(t[1], t[2], Time(2), q) : t \in Teams, q \in SeqsUpTo(Outcomes, MaxQuotes)}

Chars == {"a", NL, CR}
Texts == SeqsUpTo(Chars, MaxLen)
Limits == 0..MaxLimit

\* a timestamp; a missing commence_time (sorts as ""); a malformed one
CommenceTimes ==
    {Time(k) : k \in 1..MaxTime}
        \cup {[k |-> 0, ok |-> FALSE], [k |-> MaxTime, ok |-> FALSE]}

\* A at B with two bookmakers' quotes, and D at C with no odds yet
Quoted ==
    <<[key |-> "h2h", name |-> "B", price |-> NumPrice(-300)],
      [key |-> "h2h", name |-> "A", price |-> NumPrice(100)],
      [key |-> "h2h", name |-> "B", price |-> NumPrice(-100)]>>
FormatEvents ==
    {Event("B", "A", ct, Quoted) : ct \in CommenceTimes}
        \cup {Event("C", "D", ct, <<>>) : ct \in CommenceTimes}
EventLists == SeqsUpTo(FormatEvents, MaxEvents)

NoEvent == Event("A", "B", Time(2), <<>>)
NoPick == [winner |-> NONE, conf |-> None, av |-> [t \in {"A", "B"} |-> None]]
NoText == [ok |-> TRUE, text |-> <<>>]
NoFetch == [ok |-> TRUE, events |-> <<>>]

IdleProb == ml = NoPrice /\ prob = None
IdlePick == event = NoEvent /\ pick = NoPick
IdleChunk == s = <<>> /\ limit = 0 /\ chunks = <<>>
IdleFormat == events = <<>> /\ with_picks = FALSE /\ text = NoText
IdleCmd ==
    cmd = "" /\ args = <<>> /\ fetched = NoFetch /\ pending = <<>> /\ replies = <<>>

----------------------------------------------------------------------------
(* The converter applied to one price *)

InitProb ==
    /\ pc = "call"
    /\ ml \in PriceInputs
    /\ prob = None
    /\ IdlePick /\ IdleChunk /\ IdleFormat /\ IdleCmd

ImpliedProb ==
    /\ pc = "call"
    /\ prob' = implied_prob_from_moneyline(ml)
    /\ pc' = "done"
    /\ UNCHANGED <<ml, event, pick, s, limit, chunks, events, with_picks, text,
                   cmd, args, fetched, pending, replies>>

SpecProb == InitProb /\ [][ImpliedProb]_vars

(* The aggregator applied to one event *)

InitPick ==
    /\ pc = "call"
    /\ event \in PickEvents
    /\ pick = NoPick
    /\ IdleProb /\ IdleChunk /\ IdleFormat /\ IdleCmd

BestConsensusPick ==
    /\ pc = "call"
    /\ pick' = best_consensus_pick(event)
    /\ pc' = "done"
    /\ UNCHANGED <<ml, prob, event, s, limit, chunks, events, with_picks, text,
                   cmd, args, fetched, pending, replies>>

SpecPick == InitPick /\ [][BestConsensusPick]_vars

----------------------------------------------------------------------------
(* Claims about implied_prob_from_moneyline *)

\* C8: for a numeric price ml the result is present and equals
\* (-ml)/((-ml)+100) when ml < 0 and 100/(ml+100) when ml >= 0; it lies
\* strictly between 0 and 1 for ml < 0 and in (0, 1] for ml >= 0; the divisor
\* of the branch taken is never zero.
C8_ImpliedProbFormula ==
    (pc = "done" /\ ml.t = "num") =>
        /\ Denominator(ml.v) # 0
        /\ ~IsNone(prob)
        /\ ml.v < 0 =>
            /\ prob[1] * ((-ml.v) + 100) = (-ml.v) * prob[2]
            /\ 0 < prob[1] /\ prob[1] < prob[2]
        /\ ml.v >= 0 =>
            /\ prob[1] * (ml.v + 100) = 100 * prob[2]
            /\ 0 < prob[1] /\ prob[1] <= prob[2]

C8_Witness == pc = "done" /\ ml.t = "num" /\ ml.v = -100 /\ prob = <<1, 2>>

----------------------------------------------------------------------------
(* Claims about best_consensus_pick *)

Home == event.home_team
Away == event.away_team

\* the outcome is one the claim C9 counts for the team
Contributes(o, team) ==
    /\ o.key = "h2h"
    /\ ~IsNone(implied_prob_from_moneyline(o.price))
    /\ o.name = team

\* the probabilities of the contributing outcomes of a team, in order
Contributions(team) ==
    LET sel == SelectSeq(event.outcomes, LAMBDA o : Contributes(o, team))
    IN [i \in 1..Len(sel) |-> implied_prob_from_moneyline(sel[i].price)]

RECURSIVE DenProduct(_)
DenProduct(v) == IF v = <<>> THEN 1 ELSE v[1][2] * DenProduct(Tail(v))

RECURSIVE ScaledSum(_, _)
ScaledSum(v, D) ==
    IF v = <<>> THEN 0 ELSE v[1][1] * (D \div v[1][2]) + ScaledSum(Tail(v), D)

\* x is the arithmetic mean of the non-empty list v of rationals
IsMeanOf(x, v) ==
    LET D == DenProduct(v)
    IN ~IsNone(x) /\ x[1] * Len(v) * D = x[2] * ScaledSum(v, D)

BothPresent == ~IsNone(pick.av[Home]) /\ ~IsNone(pick.av[Away])

\* C1 as stated: when both averages are present and equal, the winner is the
\* home team.
C1_TieGoesHome ==
    (pc = "done" /\ BothPresent /\ pick.av[Home] = pick.av[Away]) =>
        pick.winner = Home

\* C1 as amended: when both averages are present and equal, the winner is
\* the away team and the confidence is the common average.
C1_TieGoesAway ==
    (pc = "done" /\ BothPresent /\ pick.av[Home] = pick.av[Away]) =>
        pick.winner = Away /\ pick.conf = pick.av[Home]

C1_Witness ==
    /\ pc = "done" /\ BothPresent /\ pick.av[Home] = pick.av[Away]
    /\ Home # Away /\ pick.winner = Away

\* C2: winner and confidence are absent exactly when neither team has a
\* collected probability; otherwise the winner is a team whose average is
\* present and the confidence is that team's average; with both averages
\* present and different the winner has the strictly higher one; data for
\* one team only gives that team.
C2_PickDecision ==
    pc = "done" =>
        LET nh == Len(Contributions(Home))
            na == Len(Contributions(Away))
            other == IF pick.winner = Home THEN Away ELSE Home
        IN /\ (pick.winner = NONE) <=> (nh = 0 /\ na = 0)
           /\ IsNone(pick.conf) <=> (nh = 0 /\ na = 0)
           /\ (nh > 0 \/ na > 0) =>
                /\ pick.winner \in {Home, Away}
                /\ ~IsNone(pick.av[pick.winner])
                /\ pick.conf = pick.av[pick.winner]
           /\ (nh > 0 /\ na > 0 /\ pick.av[Home] # pick.av[Away]) =>
                FGt(pick.av[pick.winner], pick.av[other])
           /\ (nh > 0 /\ na = 0) => pick.winner = Home
           /\ (nh = 0 /\ na > 0) => pick.winner = Away

C2_Witness ==
    /\ pc = "done" /\ BothPresent
    /\ FGt(pick.av[Away], pick.av[Home])
    /\ pick.winner = Away /\ pick.conf = pick.av[Away]

\* C9: each team's average is absent when no outcome contributes to it and
\* otherwise the arithmetic mean of the probabilities of exactly the outcomes
\* that are in an "h2h" market, have a price that converts, and carry the
\* team's name; every other outcome leaves the averages untouched and the
\* call returns.
C9_AverageOfContributions ==
    pc = "done" =>
        \A team \in {Home, Away} :
            LET v == Contributions(team)
            IN IF v = <<>> THEN IsNone(pick.av[team])
               ELSE IsMeanOf(pick.av[team], v)

C9_Witness ==
    /\ pc = "done"
    /\ Len(Contributions(Home)) = 2
    /\ Len(event.outcomes) = 2
    /\ event.outcomes[1].price # event.outcomes[2].price
    /\ ~IsNone(pick.av[Home])

----------------------------------------------------------------------------
(* The chunker applied to one text, and the formatter to one event list *)

InitChunk ==
    /\ pc = "call"
    /\ s \in Texts
    /\ limit \in Limits
    /\ chunks = <<>>
    /\ IdleProb /\ IdlePick /\ IdleFormat /\ IdleCmd

ChunkText ==
    /\ pc = "call"
    /\ chunks' = chunk_text(s, limit)
    /\ pc' = "done"
    /\ UNCHANGED <<ml, prob, event, pick, s, limit, events, with_picks, text,
                   cmd, args, fetched, pending, replies>>

SpecChunk == InitChunk /\ [][ChunkText]_vars

InitFormat ==
    /\ pc = "call"
    /\ events \in EventLists
    /\ with_picks \in BOOLEAN
    /\ text = NoText
    /\ IdleProb /\ IdlePick /\ IdleChunk /\ IdleCmd

FormatGames ==
    /\ pc = "call"
    /\ text' = format_games(events, with_picks)
    /\ pc' = "done"
    /\ UNCHANGED <<ml, prob, event, pick, s, limit, chunks, events, with_picks,
                   cmd, args, fetched, pending, replies>>

SpecFormat == InitFormat /\ [][FormatGames]_vars

----------------------------------------------------------------------------
(* Claims about chunk_text *)

Lines == splitlines(s)
Oversized(x) == Len(x) > limit

\* C3: joining the returned segments with a newline gives back the input.
C3_JoinReproducesInput == pc = "done" => Join(chunks, <<NL>>) = s

\* C4: a segment is at most limit long, or it is one input line that is
\* longer than the limit; the oversized lines of the input are, in order and
\* whole, exactly the oversized segments.
C4_SegmentsWithinLimit ==
    pc = "done" =>
        /\ \A i \in 1..Len(chunks) :
              \/ Len(chunks[i]) <= limit
              \/ /\ \A j \in 1..Len(chunks[i]) : chunks[i][j] # NL
                 /\ \E k \in 1..Len(Lines) : Lines[k] = chunks[i]
        /\ SelectSeq(chunks, Oversized) = SelectSeq(Lines, Oversized)

C4_Witness ==
    /\ pc = "done" /\ limit = 2
    /\ Len(Lines) = 2 /\ Len(chunks) = 2
    /\ Len(chunks[1]) = 1 /\ Oversized(chunks[2])

\* the least number of groups of consecutive lines such that every group is
\* either one line or joins to at most lim characters (first fit is least)
RECURSIVE FewestSegments(_, _, _, _)
FewestSegments(lines, lim, n, curLen) ==
    IF lines = <<>> THEN n
    ELSE IF n > 0 /\ curLen + 1 + Len(Head(lines)) <= lim
    THEN FewestSegments(Tail(lines), lim, n, curLen + 1 + Len(Head(lines)))
    ELSE FewestSegments(Tail(lines), lim, n + 1, Len(Head(lines)))

\* C5: no returned segment is empty, and there are no more segments than
\* the least number of line-boundary segments that respect the limit.
C5_FewestSegments ==
    pc = "done" =>
        /\ \A i \in 1..Len(chunks) : chunks[i] # <<>>
        /\ Len(chunks) <= FewestSegments(Lines, limit, 0, 0)

----------------------------------------------------------------------------
(* Claims about format_games *)

Perms(n) == {p \in [1..n -> 1..n] : \A i, j \in 1..n : p[i] = p[j] => i = j}

RECURSIVE LinesOf(_, _, _)
LinesOf(evs, p, i) ==
    IF i > Len(evs) THEN <<>>
    ELSE EventLines(evs[p[i]], with_picks) \o LinesOf(evs, p, i + 1)

AllWellFormed == \A i \in 1..Len(events) : events[i].commence_time.ok

\* C6: if some event's commence time is missing or malformed, the call fails
\* and returns no text.
C6_MalformedTimeFailsCall == (pc = "done" /\ ~AllWellFormed) => ~text.ok

C6_Witness ==
    /\ pc = "done" /\ Len(events) = 3 /\ with_picks
    /\ events[1].commence_time.ok /\ events[3].commence_time.ok
    /\ ~events[2].commence_time.ok
    /\ events[2].commence_time.k > events[1].commence_time.k
    /\ ~text.ok

\* C7: for a non-empty list of events with well-formed times the output is
\* the events' lines (event line, then its pick line when picks are asked
\* for) taken in an ascending commence-time order of the events; for the
\* empty list it is the single line "No games found for that date."
C7_AscendingOrder ==
    pc = "done" =>
        /\ events = <<>> =>
              text = [ok |-> TRUE, text |-> <<"No games found for that date.">>]
        /\ (events # <<>> /\ AllWellFormed) =>
              /\ text.ok
              /\ \E p \in Perms(Len(events)) :
                    /\ \A i, j \in 1..Len(events) :
                          i < j => events[p[i]].commence_time.k
                                     <= events[p[j]].commence_time.k
                    /\ text.text = Join(LinesOf(events, p, 1), <<NL>>)

C7_Witness ==
    /\ pc = "done" /\ Len(events) = 3 /\ with_picks /\ AllWellFormed
    /\ events[1].commence_time.k > events[2].commence_time.k
    /\ events[2].commence_time.k > events[3].commence_time.k
    /\ events[1].home_team # events[2].home_team
    /\ text.ok
    /\ text.text[2] = events[3].away_team

----------------------------------------------------------------------------
(* The command handlers cmd_games and cmd_predict *)

SPORT_KEYS == [mlb |-> "baseball_mlb", nfl |-> "americanfootball_nfl"]
ZoneName == "America/Toronto"

\* str.lower() and str.upper() on the words a user sends
Lower(w) ==
    CASE w = "NFL" -> "nfl" [] w = "MLB" -> "mlb" [] w = "TODAY" -> "today"
      [] OTHER -> w
Upper(w) ==
    CASE w = "nfl" -> "NFL" [] w = "mlb" -> "MLB" [] w = "nhl" -> "NHL"
      [] w = "today" -> "TODAY" [] OTHER -> w

ValidDates == {"2024-06-01"}

\* parse_date_arg: "today" in any case gives today's date, a %Y-%m-%d date
\* gives itself, anything else makes strptime raise ValueError
parse_date_arg(arg) ==
    IF Lower(arg) = "today" THEN [ok |-> TRUE, date |-> "2024-06-02"]
    ELSE IF arg \in ValidDates THEN [ok |-> TRUE, date |-> arg]
    ELSE [ok |-> FALSE, date |-> "does not match format '%Y-%m-%d'"]

Header(c, date_str, league) ==
    <<Upper(league),
      IF c = "predict" THEN " predictions for " ELSE " games for ",
      date_str, " (", ZoneName, "):", NL, NL>>

Raise(msg) == [ok |-> FALSE, text |-> <<msg>>]

TryBody_mutant(c, a, f) ==
    IF Len(a) < 2 THEN Raise("list index out of range")
    ELSE IF Lower(a[2]) \notin DOMAIN SPORT_KEYS THEN Raise(Lower(a[2]))
    ELSE IF ~parse_date_arg(a[1]).ok THEN Raise(parse_date_arg(a[1]).date)
    ELSE IF ~f.ok THEN Raise("HTTPError")
    ELSE [ok |-> TRUE,
          text |-> Header(c, a[1], Lower(a[2]))
                       \o format_games(f.events, c = "predict").text]

\* The statements of the try block before the sending loop, for the command
\* c with arguments a when the odds request would end as f.  The result is
\* out, or the exception raised: context.args[...] raises IndexError,
\* SPORT_KEYS[league] KeyError, parse_date_arg ValueError, fetch_events
\* whatever the request raised, format_games what to_local_date raised.
TryBody(c, a, f) ==
    IF Len(a) < 2 THEN Raise("list index out of range")
    ELSE IF Lower(a[2]) \notin DOMAIN SPORT_KEYS THEN Raise(Lower(a[2]))
    ELSE IF ~parse_date_arg(a[1]).ok THEN Raise(parse_date_arg(a[1]).date)
    ELSE IF ~f.ok THEN Raise("HTTPError")
    ELSE LET report == format_games(f.events, c = "predict") IN
         IF ~report.ok THEN [ok |-> FALSE, text |-> report.text]
         ELSE [ok |-> TRUE,
               text |-> Header(c, a[1], Lower(a[2])) \o report.text]

ArgLists ==
    {<<>>, <<"today">>}
        \cup {<<d, l>> : d \in {"today", "TODAY", "2024-06-01", "junk"},
                         l \in {"mlb", "NFL", "nhl"}}
FetchResults ==
    {[ok |-> FALSE, events |-> <<>>]}
        \cup {[ok |-> TRUE, events |-> e] : e \in SeqsUpTo(FormatEvents, MaxFetched)}

InitCmd ==
    /\ pc = "idle"
    /\ IdleProb /\ IdlePick /\ IdleChunk /\ IdleFormat /\ IdleCmd

\* the handler up to its first await
Handle(c) ==
    /\ pc = "idle"
    /\ \E a \in ArgLists, f \in FetchResults :
          LET r == TryBody(c, a, f)
              cs == IF r.ok THEN chunk_text(r.text, ScaledLimit) ELSE <<>>
          IN /\ cmd' = c /\ args' = a /\ fetched' = f
             /\ text' = r
             /\ chunks' = cs
             /\ pending' = cs
             /\ pc' = IF ~r.ok THEN "except"
                      ELSE IF cs = <<>> THEN "done" ELSE "sending"
    /\ UNCHANGED <<ml, prob, event, pick, s, limit, events, with_picks, replies>>

CmdGames == Handle("games")
CmdPredict == Handle("predict")

\* one turn of the sending loop: await update.message.reply_text(c)
ReplyChunk ==
    /\ pc = "sending"
    /\ replies' = Append(replies, Head(pending))
    /\ pending' = Tail(pending)
    /\ pc' = IF Tail(pending) = <<>> THEN "done" ELSE "sending"
    /\ UNCHANGED <<ml, prob, event, pick, s, limit, chunks, events, with_picks,
                   text, cmd, args, fetched>>

\* the except clause: await update.message.reply_text(f"Error: {e}")
ReplyError ==
    /\ pc = "except"
    /\ replies' = Append(replies, <<"Error: ">> \o text.text)
    /\ pc' = "done"
    /\ UNCHANGED <<ml, prob, event, pick, s, limit, chunks, events, with_picks,
                   text, cmd, args, fetched, pending>>

NextCmd == CmdGames \/ CmdPredict \/ ReplyChunk \/ ReplyError

SpecCmd == InitCmd /\ [][NextCmd]_vars

----------------------------------------------------------------------------
(* Claims about the command handlers *)

IsError(r) == r # <<>> /\ r[1] = "Error: "

ParseFails ==
    \/ Len(args) < 2
    \/ Lower(args[2]) \notin {"mlb", "nfl"}
    \/ (Lower(args[1]) # "today" /\ args[1] \notin ValidDates)
FetchFails == ~fetched.ok
FormatFails == \E i \in 1..Len(fetched.events) : ~fetched.events[i].commence_time.ok

\* the chunks of header plus report of the request being handled
ReportChunks ==
    chunk_text(Header(cmd, args[1], Lower(args[2]))
                   \o format_games(fetched.events, cmd = "predict").text,
               ScaledLimit)

IsPrefix(a, b) == Len(a) <= Len(b) /\ a = SubSeq(b, 1, Len(a))

C10_WitnessError ==
    /\ pc = "done" /\ ~ParseFails /\ ~FetchFails /\ FormatFails
    /\ Len(fetched.events) = 2
    /\ replies = <<<<"Error: ", "Invalid isoformat string">>>>

====
